---- MODULE Spec2Model ----
(***************************************************************************)
(* Model of Sayan.py: the image validator (validate_image), the Gemini     *)
(* wrapper (GeminiVisionAnalyzer.__init__ / analyze_image) and the         *)
(* Streamlit script main() that chains them.                               *)
(*                                                                         *)
(* Text is a sequence of chunks (one-character strings, or a whole literal *)
(* of the source as one chunk), so that concatenation is \o, the truth     *)
(* value of a str is "not the empty sequence" and str.strip() is computed. *)
(***************************************************************************)
EXTENDS Integers, Sequences, FiniteSets, TLC

VARIABLES genai_api_key, analyzers, button_disabled, last

vars == <<genai_api_key, analyzers, button_disabled, last>>

----------------------------------------------------------------------------
(* Values the inputs and the environment are drawn from.                   *)

MaxQuestionLen == 2
MaxTextLen == 2

MaxUploadBytes == 10 * 1024 * 1024

Sizes == {0, 1, 500 * 1024, MaxUploadBytes - 1, MaxUploadBytes,
          MaxUploadBytes + 1, 11 * 1024 * 1024, 12 * 1024 * 1024, 2147483647}

\* PIL image modes a PNG / JPEG / WEBP file can decode to.
Modes == {"RGB", "RGBA", "LA", "P", "L", "1", "CMYK", "PA", "I", "I;16"}

\* str(e) of the exceptions the libraries raise; str(Exception()) is empty.
Details == {<< >>, <<"d">>}

Contents == [kind : {"image"}, mode : Modes]
              \cup [kind : {"corrupt"}, detail : Details]

NoFile == [kind |-> "None"]

UploadedFiles == {NoFile} \cup [kind : {"file"}, size : Sizes, content : Contents]

File(size, content) == [kind |-> "file", size |-> size, content |-> content]

\* The uploads the script runs are driven with.
MainFiles == {NoFile,
              File(500 * 1024, [kind |-> "image", mode |-> "RGBA"]),
              File(500 * 1024, [kind |-> "image", mode |-> "L"]),
              File(500 * 1024, [kind |-> "corrupt", detail |-> <<"d">>]),
              File(12 * 1024 * 1024, [kind |-> "image", mode |-> "RGB"])}

Whitespace == {" ", "\t", "\n", "\r"}

Alphabet == {" ", "x"}

\* Every str over Alphabet of at most n characters.
Strings(n) == UNION {[1..m -> Alphabet] : m \in 0..n}

Keys == {"", "k1", "k2"}

Questions == Strings(MaxQuestionLen)

Texts == Strings(MaxTextLen)

\* Outcomes of genai.configure + genai.GenerativeModel inside __init__.
InitOutcomes == {[kind |-> "ok", detail |-> << >>]}
                  \cup [kind : {"configure_raises", "model_raises"}, detail : Details]

\* Outcomes of model.generate_content followed by the reads of response.text.
GenOutcomes == [kind : {"text"}, text : Texts, detail : {<< >>}]
                 \cup [kind : {"generate_raises", "text_raises"},
                       text : {<< >>}, detail : Details]

\* The outcomes the script runs and the direct caller next to them are
\* driven with.
MainInitOutcomes == {o \in InitOutcomes : o.kind = "ok" \/ o.detail = <<"d">>}

MainGenOutcomes == {o \in GenOutcomes :
                       IF o.kind = "text" THEN o.text \in {<< >>, <<"x">>}
                       ELSE o.detail = <<"d">>}

DirectGenOutcomes == {o \in GenOutcomes :
                         IF o.kind = "text" THEN o.text = <<"x">>
                         ELSE o.kind = "generate_raises" /\ o.detail = <<"d">>}

\* The library call is not reached.
NotCalled == [kind |-> "not called", text |-> << >>, detail |-> << >>]

AnalyzerIds == {"A", "B"}

Unconfigured == "unconfigured"
Unbound == "unbound"
NoAnalyzer == [state |-> "none"]
NoImage == [kind |-> "None"]

----------------------------------------------------------------------------
(* Python built-ins.                                                       *)

\* bool(s) of a str
Truthy(s) == Len(s) > 0

RECURSIVE lstrip(_)
lstrip(s) == IF s = << >> THEN << >>
             ELSE IF Head(s) \in Whitespace THEN lstrip(Tail(s))
             ELSE s

RECURSIVE rstrip(_)
rstrip(s) == IF s = << >> THEN << >>
             ELSE IF s[Len(s)] \in Whitespace THEN rstrip(SubSeq(s, 1, Len(s) - 1))
             ELSE s

strip_identity(s) == s

\* str.strip()
strip(s) == rstrip(lstrip(s))

----------------------------------------------------------------------------
(* PIL                                                                     *)

\* Image.open(uploaded_file): the decoded image, or the exception raised.
Image_open(uploaded_file) ==
    IF uploaded_file.content.kind = "image"
    THEN [raised |-> FALSE, detail |-> << >>,
          image |-> [kind |-> "Image", mode |-> uploaded_file.content.mode]]
    ELSE [raised |-> TRUE, detail |-> uploaded_file.content.detail, image |-> NoImage]

\* image.convert(mode)
convert(image, mode) == [image EXCEPT !.mode = mode]

----------------------------------------------------------------------------
(* validate_image.  The field opened records whether Image.open was        *)
(* called.                                                                  *)

validate_image_decode_first(uploaded_file) ==
    IF uploaded_file = NoFile
    THEN [is_valid |-> FALSE, image |-> NoImage,
          message |-> <<"No file uploaded.">>, opened |-> FALSE]
    ELSE LET o == Image_open(uploaded_file) IN
         IF o.raised
         THEN [is_valid |-> FALSE, image |-> NoImage,
               message |-> <<"Invalid image file: ">> \o o.detail, opened |-> TRUE]
         ELSE IF uploaded_file.size > 10 * 1024 * 1024
         THEN [is_valid |-> FALSE, image |-> NoImage,
               message |-> <<"File size exceeds 10MB limit.">>, opened |-> TRUE]
         ELSE [is_valid |-> TRUE,
               image |-> IF o.image.mode \in {"RGBA", "LA", "P"}
                         THEN convert(o.image, "RGB") ELSE o.image,
               message |-> <<"Image validated successfully.">>, opened |-> TRUE]

validate_image(uploaded_file) ==
    IF uploaded_file = NoFile
    THEN [is_valid |-> FALSE, image |-> NoImage,
          message |-> <<"No file uploaded.">>, opened |-> FALSE]
    ELSE IF uploaded_file.size > 10 * 1024 * 1024
    THEN [is_valid |-> FALSE, image |-> NoImage,
          message |-> <<"File size exceeds 10MB limit.">>, opened |-> FALSE]
    ELSE LET o == Image_open(uploaded_file) IN
         IF o.raised
         THEN [is_valid |-> FALSE, image |-> NoImage,
               message |-> <<"Invalid image file: ">> \o o.detail, opened |-> TRUE]
         ELSE [is_valid |-> TRUE,
               image |-> IF o.image.mode \in {"RGBA", "LA", "P"}
                         THEN convert(o.image, "RGB") ELSE o.image,
               message |-> <<"Image validated successfully.">>, opened |-> TRUE]

----------------------------------------------------------------------------
(* GeminiVisionAnalyzer.                                                   *)
(*                                                                         *)
(* genai.configure(api_key=...) stores the key in the genai module, not in *)
(* the analyzer: GenerativeModel('gemini-1.5-flash') is built without it   *)
(* and takes its client from the module's configuration on its first       *)
(* generate_content call, keeping that client afterwards.  g is the key    *)
(* the module holds when the method is entered.  created_with is history:  *)
(* the api_key argument of the constructor call.                           *)

GeminiVisionAnalyzer_swallow(api_key, out, g) ==
    [raised |-> FALSE,
     detail |-> << >>,
     self |-> [state |-> IF out.kind = "ok" THEN "ready" ELSE "failed",
               created_with |-> api_key, client |-> Unbound],
     genai |-> IF out.kind = "configure_raises" THEN g ELSE api_key,
     configures |-> 1]

\* __init__
GeminiVisionAnalyzer(api_key, out, g) ==
    IF out.kind = "ok"
    THEN [raised |-> FALSE,
          detail |-> << >>,
          self |-> [state |-> "ready", created_with |-> api_key, client |-> Unbound],
          genai |-> api_key,
          configures |-> 1]
    ELSE [raised |-> TRUE,
          detail |-> out.detail,
          self |-> NoAnalyzer,
          genai |-> IF out.kind = "configure_raises" THEN g ELSE api_key,
          configures |-> 1]

\* self.model.generate_content([prompt, image]): the request that leaves.
generate_content(self, prompt, image, g) ==
    [prompt |-> prompt, image |-> image,
     credential |-> IF self.client = Unbound THEN g ELSE self.client]

analyze_image_narrow_try(self, image, question, gen, g) ==
    LET prompt == <<"Please analyze this image and answer the following question: ">>
                    \o question
        request == generate_content(self, prompt, image, g)
        bound == [self EXCEPT !.client = request.credential]
    IN  IF gen.kind = "generate_raises"
        THEN [raised |-> FALSE, ok |-> FALSE,
              message |-> <<"Error during image analysis: ">> \o gen.detail,
              detail |-> << >>, requests |-> 1, request |-> request, self |-> bound]
        ELSE IF gen.kind = "text_raises"
        THEN [raised |-> TRUE, ok |-> FALSE, message |-> << >>,
              detail |-> gen.detail, requests |-> 1, request |-> request, self |-> bound]
        ELSE IF Truthy(gen.text)
        THEN [raised |-> FALSE, ok |-> TRUE, message |-> gen.text,
              detail |-> << >>, requests |-> 1, request |-> request, self |-> bound]
        ELSE [raised |-> FALSE, ok |-> FALSE,
              message |-> <<"No response generated from the model.">>,
              detail |-> << >>, requests |-> 1, request |-> request, self |-> bound]

analyze_image_retry(self, image, question, gen, g) ==
    LET prompt == <<"Please analyze this image and answer the following question: ">>
                    \o question
        request == generate_content(self, prompt, image, g)
        bound == [self EXCEPT !.client = request.credential]
    IN  IF gen.kind \in {"generate_raises", "text_raises"}
        THEN [raised |-> FALSE, ok |-> FALSE,
              message |-> <<"Error during image analysis: ">> \o gen.detail,
              detail |-> << >>, requests |-> 2, request |-> request, self |-> bound]
        ELSE IF Truthy(gen.text)
        THEN [raised |-> FALSE, ok |-> TRUE, message |-> gen.text,
              detail |-> << >>, requests |-> 1, request |-> request, self |-> bound]
        ELSE [raised |-> FALSE, ok |-> FALSE,
              message |-> <<"No response generated from the model.">>,
              detail |-> << >>, requests |-> 2, request |-> request, self |-> bound]

\* analyze_image: (ok, message) is the returned pair; raised / detail say
\* whether an exception left the method instead; requests counts the
\* generate_content calls made.
analyze_image(self, image, question, gen, g) ==
    LET prompt == <<"Please analyze this image and answer the following question: ">>
                    \o question
        request == generate_content(self, prompt, image, g)
        bound == [self EXCEPT !.client = request.credential]
    IN  IF gen.kind \in {"generate_raises", "text_raises"}
        THEN [raised |-> FALSE, ok |-> FALSE,
              message |-> <<"Error during image analysis: ">> \o gen.detail,
              detail |-> << >>, requests |-> 1, request |-> request, self |-> bound]
        ELSE IF Truthy(gen.text)
        THEN [raised |-> FALSE, ok |-> TRUE, message |-> gen.text,
              detail |-> << >>, requests |-> 1, request |-> request, self |-> bound]
        ELSE [raised |-> FALSE, ok |-> FALSE,
              message |-> <<"No response generated from the model.">>,
              detail |-> << >>, requests |-> 1, request |-> request, self |-> bound]

----------------------------------------------------------------------------
(* main(): one run of the Streamlit script.                                *)

NoRequest == [kind |-> "None"]

\* st.markdown('<div class="...-box">...</div>')
Box(class, text) == [class |-> class, text |-> text]

NoBox == [class |-> "none", text |-> << >>]

\* What a run does below "if analyze_button:" when nothing is attempted.
NotRun == [box |-> NoBox, validated |-> FALSE, is_valid |-> FALSE,
           constructed |-> FALSE, init_raised |-> FALSE,
           analyze_called |-> FALSE, analyzed_on |-> "none",
           configures |-> 0, requests |-> 0, request |-> NoRequest]

\* The try block of main: construct the analyzer, analyze, render.
run_analysis(api_key, image, question, out, gen, g) ==
    LET init == GeminiVisionAnalyzer(api_key, out, g)
        done == [NotRun EXCEPT !.validated = TRUE, !.is_valid = TRUE,
                               !.constructed = TRUE,
                               !.init_raised = init.raised,
                               !.configures = init.configures]
    IN  IF init.raised
        THEN [run |-> [done EXCEPT
                         !.box = Box("error-box", <<"Application error: ">> \o init.detail)],
              genai |-> init.genai]
        ELSE LET r == analyze_image(init.self, image, question, gen, init.genai)
                 called == [done EXCEPT !.analyze_called = TRUE,
                                        !.analyzed_on = init.self.state,
                                        !.requests = r.requests,
                                        !.request = r.request]
             IN  [run |-> [called EXCEPT !.box =
                             IF r.raised
                             THEN Box("error-box", <<"Application error: ">> \o r.detail)
                             ELSE IF r.ok
                             THEN Box("success-box", r.message)
                             ELSE Box("error-box", <<"Analysis failed: ">> \o r.message)],
                  genai |-> init.genai]

on_analyze_button_unvalidated(api_key, uploaded_file, question, out, gen, g) ==
    IF ~(api_key /= "")
    THEN [run |-> [NotRun EXCEPT !.box =
                     Box("error-box", <<"Please provide a valid API key.">>)],
          genai |-> g]
    ELSE IF uploaded_file = NoFile
    THEN [run |-> [NotRun EXCEPT !.box =
                     Box("error-box", <<"Please upload an image.">>)],
          genai |-> g]
    ELSE IF ~Truthy(strip(question))
    THEN [run |-> [NotRun EXCEPT !.box =
                     Box("error-box", <<"Please enter a question.">>)],
          genai |-> g]
    ELSE LET v == validate_image(uploaded_file)
             a == run_analysis(api_key, v.image, question, out, gen, g)
         IN  [a EXCEPT !.run.is_valid = v.is_valid]

\* The body of "if analyze_button:".
on_analyze_button(api_key, uploaded_file, question, out, gen, g) ==
    IF ~(api_key /= "")
    THEN [run |-> [NotRun EXCEPT !.box =
                     Box("error-box", <<"Please provide a valid API key.">>)],
          genai |-> g]
    ELSE IF uploaded_file = NoFile
    THEN [run |-> [NotRun EXCEPT !.box =
                     Box("error-box", <<"Please upload an image.">>)],
          genai |-> g]
    ELSE IF ~Truthy(strip(question))
    THEN [run |-> [NotRun EXCEPT !.box =
                     Box("error-box", <<"Please enter a question.">>)],
          genai |-> g]
    ELSE LET v == validate_image(uploaded_file) IN
         IF ~v.is_valid
         THEN [run |-> [NotRun EXCEPT !.validated = TRUE,
                          !.box = Box("error-box", <<"Invalid image file.">>)],
               genai |-> g]
         ELSE run_analysis(api_key, v.image, question, out, gen, g)

\* disabled= of the "Analyze Image" button
disabled(api_key, uploaded_file, question) ==
    ~(api_key /= "" /\ uploaded_file /= NoFile /\ Truthy(strip(question)))

\* main(): preview is the box of the upload column (the first validate_image
\* call), run what the script does below "if analyze_button:".
main(api_key, uploaded_file, question, analyze_button, out, gen, g) ==
    LET click == IF analyze_button
                 THEN on_analyze_button(api_key, uploaded_file, question, out, gen, g)
                 ELSE [run |-> NotRun, genai |-> g]
    IN  [preview |-> IF uploaded_file /= NoFile
                     THEN LET v == validate_image(uploaded_file)
                          IN  Box(IF v.is_valid THEN "success-box" ELSE "error-box",
                                  v.message)
                     ELSE NoBox,
         disabled |-> disabled(api_key, uploaded_file, question),
         run |-> click.run,
         genai |-> click.genai]

----------------------------------------------------------------------------
(* The state machine.                                                      *)
(*   genai_api_key    the key held by the genai module (genai.configure)   *)
(*   analyzers        the GeminiVisionAnalyzer objects a caller holds      *)
(*   button_disabled  whether the page shows the Analyze button disabled   *)
(*   last             the operation performed last: inputs and outcome     *)

TheImage == [kind |-> "Image", mode |-> "RGB"]

Init ==
    /\ genai_api_key = Unconfigured
    /\ analyzers = [a \in AnalyzerIds |-> NoAnalyzer]
    /\ button_disabled = TRUE
    /\ last = [op |-> "none"]

\* validate_image(uploaded_file) called on its own.
Validate(uploaded_file) ==
    /\ last' = [op |-> "validate_image", uploaded_file |-> uploaded_file,
                result |-> validate_image(uploaded_file)]
    /\ UNCHANGED <<genai_api_key, analyzers, button_disabled>>

\* a = GeminiVisionAnalyzer(api_key); the name keeps its old value when
\* the constructor raises.
Create(a, api_key, out) ==
    LET init == GeminiVisionAnalyzer(api_key, out, genai_api_key) IN
    /\ genai_api_key' = init.genai
    /\ analyzers' = IF init.raised THEN analyzers
                    ELSE [analyzers EXCEPT ![a] = init.self]
    /\ last' = [op |-> "__init__", a |-> a, api_key |-> api_key, out |-> out,
                raised |-> init.raised, detail |-> init.detail,
                self |-> init.self, configures |-> init.configures]
    /\ UNCHANGED button_disabled

\* analyzers[a].analyze_image(image, question) called on its own.
Analyze(a, image, question, gen) ==
    /\ analyzers[a] /= NoAnalyzer
    /\ LET r == analyze_image(analyzers[a], image, question, gen, genai_api_key) IN
       /\ analyzers' = [analyzers EXCEPT ![a] = r.self]
       /\ last' = [op |-> "analyze_image", a |-> a,
                   created_with |-> analyzers[a].created_with,
                   state |-> analyzers[a].state,
                   question |-> question, gen |-> gen,
                   raised |-> r.raised, detail |-> r.detail,
                   ok |-> r.ok, message |-> r.message,
                   requests |-> r.requests, request |-> r.request]
    /\ UNCHANGED <<genai_api_key, button_disabled>>

\* One run of the script.  The button can only be pressed when the page
\* produced by the previous run shows it enabled; the outcome of a library
\* call is drawn only when the run makes the call.
Main(api_key, uploaded_file, question, analyze_button) ==
    /\ analyze_button => ~button_disabled
    /\ \E out \in IF main(api_key, uploaded_file, question, analyze_button,
                          NotCalled, NotCalled, genai_api_key).run.constructed
                  THEN MainInitOutcomes ELSE {NotCalled} :
       \E gen \in IF main(api_key, uploaded_file, question, analyze_button,
                          out, NotCalled, genai_api_key).run.analyze_called
                  THEN MainGenOutcomes ELSE {NotCalled} :
          LET m == main(api_key, uploaded_file, question, analyze_button, out, gen,
                        genai_api_key) IN
          /\ genai_api_key' = m.genai
          /\ button_disabled' = m.disabled
          /\ last' = [op |-> "main", api_key |-> api_key,
                      uploaded_file |-> uploaded_file, question |-> question,
                      analyze_button |-> analyze_button,
                      out |-> out, gen |-> gen,
                      preview |-> m.preview, run |-> m.run]
    /\ UNCHANGED analyzers

\* The validator on its own, over every upload.
NextValidate == \E f \in UploadedFiles : Validate(f)

SpecValidate == Init /\ [][NextValidate]_vars

\* The analyzer class on its own: constructions and analyze calls of two
\* analyzers in any order.
NextAnalyzer ==
    \/ \E a \in AnalyzerIds, k \in Keys, out \in InitOutcomes : Create(a, k, out)
    \/ \E a \in AnalyzerIds, q \in {<< >>, <<"x">>}, gen \in GenOutcomes :
          Analyze(a, TheImage, q, gen)

SpecAnalyzer == Init /\ [][NextAnalyzer]_vars

\* The script, next to a caller that uses one analyzer directly.
Next ==
    \/ \E k \in Keys, f \in MainFiles, q \in Questions, b \in BOOLEAN :
          Main(k, f, q, b)
    \/ \E out \in MainInitOutcomes : Create("A", "k1", out)
    \/ \E q \in Questions, gen \in DirectGenOutcomes : Analyze("A", TheImage, q, gen)

Spec == Init /\ [][Next]_vars

----------------------------------------------------------------------------
(* Properties.                                                             *)

\* A str that is empty or holds only whitespace.
IsBlank(s) == \A i \in 1..Len(s) : s[i] \in Whitespace

SizeExceeded == [is_valid |-> FALSE, image |-> NoImage,
                 message |-> <<"File size exceeds 10MB limit.">>, opened |-> FALSE]

\* C1: whatever generate_content does (raises, returns empty text, returns
\* text, returns a response whose text cannot be read), analyze_image
\* returns one (ok, message) pair and raises nothing; when generate_content
\* raises with description d the pair is
\* (False, "Error during image analysis: " + d).
C1_AnalyzeAlwaysReturns ==
    last.op = "analyze_image" =>
        /\ ~last.raised
        /\ last.ok \in BOOLEAN
        /\ last.gen.kind = "generate_raises" =>
              /\ last.ok = FALSE
              /\ last.message = <<"Error during image analysis: ">> \o last.gen.detail

C1_Witness ==
    /\ last.op = "analyze_image"
    /\ last.gen.kind = "generate_raises"
    /\ last.gen.detail = <<"d">>
    /\ last.message = <<"Error during image analysis: ", "d">>

\* C2: an upload of more than 10 MiB is answered with the size error whatever
\* its bytes are, and Image.open is not called on it; an upload of exactly
\* 10 MiB is not answered with the size error.
C2_OversizedNeverDecoded ==
    (last.op = "validate_image" /\ last.uploaded_file /= NoFile) =>
        /\ last.uploaded_file.size > MaxUploadBytes => last.result = SizeExceeded
        /\ last.uploaded_file.size = MaxUploadBytes =>
              last.result.message /= SizeExceeded.message

C2_Witness ==
    /\ last.op = "validate_image"
    /\ last.uploaded_file /= NoFile
    /\ last.uploaded_file.size = MaxUploadBytes + 1
    /\ last.uploaded_file.content.kind = "corrupt"
    /\ last.result = SizeExceeded

\* C3: whenever validate_image succeeds the returned image is in mode RGB,
\* whatever mode the file decoded to.
C3_ValidatedIsRGB ==
    (last.op = "validate_image" /\ last.result.is_valid) =>
        last.result.image.mode = "RGB"

\* C4: constructing an analyzer with an empty api_key fails, and no analyzer
\* built with an empty api_key exists.
C4_EmptyCredentialRejected ==
    /\ (last.op = "__init__" /\ last.api_key = "") =>
          (last.raised /\ last.self = NoAnalyzer)
    /\ \A a \in AnalyzerIds :
          analyzers[a] /= NoAnalyzer => analyzers[a].created_with /= ""

\* C5: when generate_content returns text, analyze_image returns
\* (False, "No response generated from the model.") if the text is empty or
\* only whitespace, and (True, text) otherwise.
C5_BlankTextIsFailure ==
    (last.op = "analyze_image" /\ last.gen.kind = "text") =>
        IF IsBlank(last.gen.text)
        THEN /\ last.ok = FALSE
             /\ last.message = <<"No response generated from the model.">>
        ELSE /\ last.ok = TRUE
             /\ last.message = last.gen.text

\* C6: every analyze_image call makes exactly one generate_content call,
\* whatever its outcome: none is repeated after a fault or an empty
\* response, and no call returns without having made it.
C6_OneRequestPerCall ==
    last.op = "analyze_image" => last.requests = 1

C6_Witness ==
    /\ last.op = "analyze_image"
    /\ last.gen.kind = "text"
    /\ last.gen.text = << >>
    /\ last.ok = FALSE
    /\ last.requests = 1

\* C7: in a run of the script, the analyzer is constructed and
\* generate_content is called only after validate_image accepted the upload
\* of that run: when the upload is missing, too large or undecodable, nothing
\* is configured, constructed or requested.
C7_NoRemoteCallBeforeValidation ==
    last.op = "main" =>
        /\ (last.run.constructed \/ last.run.analyze_called) => last.run.validated
        /\ (last.uploaded_file = NoFile \/ ~last.run.is_valid) =>
              /\ ~last.run.constructed
              /\ ~last.run.analyze_called
              /\ last.run.configures = 0
              /\ last.run.requests = 0

C7_Witness ==
    /\ last.op = "main"
    /\ last.analyze_button
    /\ last.uploaded_file /= NoFile
    /\ last.uploaded_file.size = 12 * 1024 * 1024
    /\ last.run.validated
    /\ last.run.box = Box("error-box", <<"Invalid image file.">>)
    /\ ~last.run.constructed

C9_RequestUnderOwnCredential ==
    (last.op = "analyze_image" /\ last.created_with /= "") =>
        last.request.credential = last.created_with

\* C10: the script never calls analyze_image with a question that is empty or
\* only whitespace, nor with an empty api_key or without an upload, while
\* analyze_image called directly with an empty question makes its request.
C10_QuestionCheckedByScriptOnly ==
    /\ (last.op = "main" /\ last.run.analyze_called) =>
          /\ ~IsBlank(last.question)
          /\ last.api_key /= ""
          /\ last.uploaded_file /= NoFile
          /\ last.run.request.prompt =
                <<"Please analyze this image and answer the following question: ">>
                   \o last.question
    /\ (last.op = "analyze_image" /\ IsBlank(last.question)) =>
          /\ last.requests = 1
          /\ last.request.prompt =
                <<"Please analyze this image and answer the following question: ">>
                   \o last.question

C10_Witness ==
    /\ last.op = "analyze_image"
    /\ last.question = << >>
    /\ last.requests = 1
    /\ last.request.prompt =
          <<"Please analyze this image and answer the following question: ">>

====
